---- MODULE Spec2Model ----
(***************************************************************************)
(* Model of the BLDC motor controller of lib/MotorControl/MotorControl.c.  *)
(*                                                                         *)
(* Program state: the three file-scope statics currentSpeed, isRunning and *)
(* pwmDutyCycle, and the value last written to each of the three phase     *)
(* PWM channels (softPwmCreate / softPwmWrite).  The Hall sensor inputs    *)
(* are free: every digitalRead returns 0 or 1.                             *)
(*                                                                         *)
(* Every public function is an operator from a state record (and its       *)
(* inputs) to the state record on return; the actions apply them.          *)
(* History variables (lastOp, hallReads, lastRpm, result, invalidRun,      *)
(* faultDue, ...) record what the last call was and what it saw.           *)
(*                                                                         *)
(* Spec     : the library driven by any sequential caller.                 *)
(* SpecMain : the main program of src/main.c with its signal handler.      *)
(* SpecRace : updateCommutation interleaved, access by access, with a      *)
(*            command issued from a second context.                        *)
(***************************************************************************)
EXTENDS Integers, Sequences, FiniteSets, TLC

VARIABLES
    currentSpeed,   \* static volatile uint16_t currentSpeed
    isRunning,      \* static volatile uint8_t  isRunning
    pwmDutyCycle,   \* static volatile uint16_t pwmDutyCycle
    phaseA,         \* value last written to PHASE_A_PIN
    phaseB,         \* value last written to PHASE_B_PIN
    phaseC,         \* value last written to PHASE_C_PIN
    lastOp,         \* history: name of the last function called
    hallReads,      \* history: Hall codes read by the last call (<<>> if none)
    lastRpm,        \* history: argument of the most recent motorSetSpeed
    result,         \* history: value returned by the last call (0 for void)
    invalidRun,     \* history: consecutive invalid Hall codes read while running
    faultDue,       \* history: invalidRun has reached FaultDebounceCount once
    wasRunning,     \* history: isRunning when the last call was entered
    prevRun,        \* history: invalidRun when the last call was entered
    tableReads,     \* history: indices the last call read commutationTable at
    pcMain,         \* main.c: position of main()
    speed,          \* main.c: uint16_t speed, local of main()
    running,        \* main.c: volatile uint8_t running
    pcCtx,          \* interleaved calls: position of each context in its call
    hallLocal,      \* interleaved calls: hallState local of each context
    rpmLocal        \* interleaved calls: rpm parameter of the command context

vars == <<currentSpeed, isRunning, pwmDutyCycle, phaseA, phaseB, phaseC,
          lastOp, hallReads, lastRpm, result, invalidRun, faultDue,
          wasRunning, prevRun, tableReads, pcMain, speed, running,
          pcCtx, hallLocal, rpmLocal>>

progVars == <<currentSpeed, isRunning, pwmDutyCycle, phaseA, phaseB, phaseC>>

mainVars == <<pcMain, speed, running>>

raceVars == <<pcCtx, hallLocal, rpmLocal>>

histVars == <<lastOp, hallReads, lastRpm, result, invalidRun, faultDue,
              wasRunning, prevRun, tableReads>>

----------------------------------------------------------------------------
(* Program constants                                                       *)

MOTOR_MAX_RPM == 5000
PWM_RANGE == 1024
UINT16_MAX == 65535
\* const uint16_t speedStep of main()
speedStep == 100

----------------------------------------------------------------------------
(* Bounds of the model                                                     *)

\* number of grid intervals the rpm arguments are sampled with
RpmSamples == 8
\* the N of "N consecutive invalid Hall codes" (the code has no such constant)
FaultDebounceCount == 3

----------------------------------------------------------------------------
(* Helpers                                                                 *)

Min(a, b) == IF a < b THEN a ELSE b
Abs(x) == IF x < 0 THEN -x ELSE x

\* conversion of an int to uint16_t on assignment
ToUint16(x) == x % (UINT16_MAX + 1)

\* Hall codes
HallCodes == 0..7
ValidHall == 1..6
InvalidHall == {0, 7}
Bit == {0, 1}

\* the two contexts of the interleaved model: the control loop that calls
\* updateCommutation, and an ISR or supervisory thread that issues commands
Ctx == {"tick", "cmd"}
\* speed requests of the command context
RaceRpm == {0, MOTOR_MAX_RPM, UINT16_MAX}

\* rpm arguments: the boundaries of the clamp and of the 16-bit range, and a
\* grid over [0, MOTOR_MAX_RPM] and over [MOTOR_MAX_RPM, UINT16_MAX]
RpmInputs ==
    {0, 1, MOTOR_MAX_RPM - 1, MOTOR_MAX_RPM, MOTOR_MAX_RPM + 1, UINT16_MAX}
    \cup {(k * MOTOR_MAX_RPM) \div RpmSamples : k \in 0..RpmSamples}
    \cup {MOTOR_MAX_RPM + (k * (UINT16_MAX - MOTOR_MAX_RPM)) \div RpmSamples :
             k \in 0..RpmSamples}

----------------------------------------------------------------------------
(* The code                                                                *)

\* variant: row 7 drives all three phases instead of none
commutationTable_row7On ==
    [h \in HallCodes |->
        CASE h = 0 -> <<0, 0, 0>>
          [] h = 1 -> <<1, 0, 0>>
          [] h = 2 -> <<0, 1, 0>>
          [] h = 3 -> <<1, 1, 0>>
          [] h = 4 -> <<0, 0, 1>>
          [] h = 5 -> <<1, 0, 1>>
          [] h = 6 -> <<0, 1, 1>>
          [] h = 7 -> <<1, 1, 1>>]

\* variant: row 4 repeats row 1
commutationTable_dupRow ==
    [h \in HallCodes |->
        CASE h = 0 -> <<0, 0, 0>>
          [] h = 1 -> <<1, 0, 0>>
          [] h = 2 -> <<0, 1, 0>>
          [] h = 3 -> <<1, 1, 0>>
          [] h = 4 -> <<1, 0, 0>>
          [] h = 5 -> <<1, 0, 1>>
          [] h = 6 -> <<0, 1, 1>>
          [] h = 7 -> <<0, 0, 0>>]

\* static const uint8_t commutationTable[8][3], rows indexed by the Hall code
commutationTable ==
    [h \in HallCodes |->
        CASE h = 0 -> <<0, 0, 0>>
          [] h = 1 -> <<1, 0, 0>>
          [] h = 2 -> <<0, 1, 0>>
          [] h = 3 -> <<1, 1, 0>>
          [] h = 4 -> <<0, 0, 1>>
          [] h = 5 -> <<1, 0, 1>>
          [] h = 6 -> <<0, 1, 1>>
          [] h = 7 -> <<0, 0, 0>>]

\* variant: Hall A is shifted by 1 instead of 2, and so is or-ed onto Hall B
hallState_noShift(a, b, c) == (2 * (IF a + b > 0 THEN 1 ELSE 0)) + c

\* hallState = (digitalRead(A) << 2) | (digitalRead(B) << 1) | digitalRead(C)
\* (the three terms have disjoint bits, so the bitwise or is their sum)
hallState(a, b, c) == (a * 4) + (b * 2) + c

\* the program state as a record
State ==
    [currentSpeed |-> currentSpeed, isRunning |-> isRunning,
     pwmDutyCycle |-> pwmDutyCycle,
     phaseA |-> phaseA, phaseB |-> phaseB, phaseC |-> phaseC]

\* variant: the write to PHASE_C_PIN is missing
motorStop_skipPhaseC(s) ==
    [s EXCEPT !.isRunning = 0, !.phaseA = 0, !.phaseB = 0]

\* variant: the running flag is not cleared
motorStop_keepFlag(s) ==
    [s EXCEPT !.phaseA = 0, !.phaseB = 0, !.phaseC = 0]

\* variant: only the running flag is cleared, no phase is written
motorStop_flagOnly(s) == [s EXCEPT !.isRunning = 0]

\* variant: the speed setting is reset as well
motorStop_zeroSpeed(s) ==
    [s EXCEPT !.isRunning = 0, !.currentSpeed = 0, !.pwmDutyCycle = 0,
              !.phaseA = 0, !.phaseB = 0, !.phaseC = 0]

\* void motorStop(void)
motorStop(s) ==
    [s EXCEPT !.isRunning = 0, !.phaseA = 0, !.phaseB = 0, !.phaseC = 0]

\* variant: an invalid Hall code stops the motor
updateCommutation_stopOnInvalid(s, h) ==
    IF s.isRunning = 0
    THEN s
    ELSE IF h \in InvalidHall
         THEN [s EXCEPT !.isRunning = 0,
                        !.phaseA = 0, !.phaseB = 0, !.phaseC = 0]
         ELSE LET pattern == commutationTable[h]
              IN  [s EXCEPT
                     !.phaseA = IF pattern[1] # 0 THEN s.pwmDutyCycle ELSE 0,
                     !.phaseB = IF pattern[2] # 0 THEN s.pwmDutyCycle ELSE 0,
                     !.phaseC = IF pattern[3] # 0 THEN s.pwmDutyCycle ELSE 0]

\* variant: the isRunning guard is missing
updateCommutation_noGuard(s, h) ==
    LET pattern == commutationTable[h]
    IN  [s EXCEPT
           !.phaseA = IF pattern[1] # 0 THEN s.pwmDutyCycle ELSE 0,
           !.phaseB = IF pattern[2] # 0 THEN s.pwmDutyCycle ELSE 0,
           !.phaseC = IF pattern[3] # 0 THEN s.pwmDutyCycle ELSE 0]

\* void updateCommutation(void), h the Hall code it reads when running
updateCommutation(s, h) ==
    IF s.isRunning = 0
    THEN s
    ELSE LET pattern == commutationTable[h]
         IN  [s EXCEPT
                !.phaseA = IF pattern[1] # 0 THEN s.pwmDutyCycle ELSE 0,
                !.phaseB = IF pattern[2] # 0 THEN s.pwmDutyCycle ELSE 0,
                !.phaseC = IF pattern[3] # 0 THEN s.pwmDutyCycle ELSE 0]

\* variant: no clamp
clampRpm_missing(rpm) == rpm

\* the clamp of motorSetSpeed: if (rpm > MOTOR_MAX_RPM) rpm = MOTOR_MAX_RPM
clampRpm(rpm) == IF rpm > MOTOR_MAX_RPM THEN MOTOR_MAX_RPM ELSE rpm

\* variant: the product is truncated to 16 bits before the division
dutyOf_wrap16(rpm) == ToUint16(ToUint16(rpm * PWM_RANGE) \div MOTOR_MAX_RPM)

\* (rpm * PWM_RANGE) / MOTOR_MAX_RPM, assigned to a uint16_t.  rpm is promoted
\* to int (32 bits on the target), so the product, at most
\* UINT16_MAX * PWM_RANGE < 2^31, is exact.
dutyOf(rpm) == ToUint16((rpm * PWM_RANGE) \div MOTOR_MAX_RPM)

\* variant: currentSpeed is stored before the clamp
motorSetSpeed_storeRaw(s, rpm, h) ==
    LET r  == clampRpm(rpm)
        s1 == [s EXCEPT !.currentSpeed = rpm, !.pwmDutyCycle = dutyOf(r)]
    IN  IF s1.isRunning # 0 THEN updateCommutation(s1, h) ELSE s1

\* variant: the commutation is updated before the new duty is stored
motorSetSpeed_updateFirst(s, rpm, h) ==
    LET r  == clampRpm(rpm)
        s1 == IF s.isRunning # 0 THEN updateCommutation(s, h) ELSE s
    IN  [s1 EXCEPT !.currentSpeed = r, !.pwmDutyCycle = dutyOf(r)]

\* void motorSetSpeed(uint16_t rpm), h the Hall code read if it updates
motorSetSpeed(s, rpm, h) ==
    LET r  == clampRpm(rpm)
        s1 == [s EXCEPT !.currentSpeed = r, !.pwmDutyCycle = dutyOf(r)]
    IN  IF s1.isRunning # 0 THEN updateCommutation(s1, h) ELSE s1

\* void motorStart(void), h the Hall code its update reads
motorStart(s, h) == updateCommutation([s EXCEPT !.isRunning = 1], h)

\* uint16_t motorGetSpeed(void)
motorGetSpeed(s) == s.currentSpeed

\* variant: the motor is stopped before the setup result is checked
motorInit_stopFirst(s, setupOk) ==
    motorStop([s EXCEPT !.phaseA = 0, !.phaseB = 0, !.phaseC = 0])

\* int motorInit(void): setupOk is wiringPiSetup() != -1; softPwmCreate starts
\* each channel at 0, then motorStop()
motorInit(s, setupOk) ==
    IF ~setupOk
    THEN s
    ELSE motorStop([s EXCEPT !.phaseA = 0, !.phaseB = 0, !.phaseC = 0])

motorInitResult(setupOk) == IF setupOk THEN 0 ELSE -1

----------------------------------------------------------------------------
(* History bookkeeping                                                     *)

\* the Hall codes a call reads: one if its update ran on a running motor
ReadsOf(flag, h) == IF flag # 0 THEN <<h>> ELSE <<>>

\* consecutive invalid codes read, saturating at FaultDebounceCount
RunAfter(reads) ==
    IF reads = <<>> THEN invalidRun
    ELSE IF reads[1] \in InvalidHall
         THEN Min(invalidRun + 1, FaultDebounceCount)
         ELSE 0

\* variant: only valid codes are looked up
tableIndices_validOnly(reads) ==
    SelectSeq(reads, LAMBDA h : h \in ValidHall)

\* pattern = commutationTable[hallState]: every code read indexes the table
tableIndices(reads) == reads

Track(op, reads, rpm, res, run) ==
    /\ lastOp' = op
    /\ hallReads' = reads
    /\ lastRpm' = rpm
    /\ result' = res
    /\ invalidRun' = run
    /\ faultDue' = (faultDue \/ run >= FaultDebounceCount)
    /\ wasRunning' = isRunning
    /\ prevRun' = invalidRun
    /\ tableReads' = tableIndices(reads)

Assign(s) ==
    /\ currentSpeed' = s.currentSpeed
    /\ isRunning' = s.isRunning
    /\ pwmDutyCycle' = s.pwmDutyCycle
    /\ phaseA' = s.phaseA
    /\ phaseB' = s.phaseB
    /\ phaseC' = s.phaseC

----------------------------------------------------------------------------
(* The state machine                                                       *)

Init ==
    /\ currentSpeed = 0
    /\ isRunning = 0
    /\ pwmDutyCycle = 0
    /\ phaseA = 0
    /\ phaseB = 0
    /\ phaseC = 0
    /\ lastOp = "none"
    /\ hallReads = <<>>
    /\ lastRpm = 0
    /\ result = 0
    /\ invalidRun = 0
    /\ faultDue = FALSE
    /\ wasRunning = 0
    /\ prevRun = 0
    /\ tableReads = <<>>
    /\ pcMain = "init"
    /\ speed = 0
    /\ running = 1
    /\ pcCtx = [x \in Ctx |-> "idle"]
    /\ hallLocal = [x \in Ctx |-> 0]
    /\ rpmLocal = 0

\* the calls, as made by any caller
CallMotorInit ==
    \E setupOk \in BOOLEAN :
        /\ Assign(motorInit(State, setupOk))
        /\ Track("motorInit", <<>>, lastRpm, motorInitResult(setupOk),
                 IF setupOk THEN 0 ELSE invalidRun)

CallMotorSetSpeed(rpm) ==
    \E a \in Bit, b \in Bit, c \in Bit :
        LET h     == hallState(a, b, c)
            reads == ReadsOf(isRunning, h)
        IN  /\ Assign(motorSetSpeed(State, rpm, h))
            /\ Track("motorSetSpeed", reads, rpm, 0, RunAfter(reads))

CallMotorStop ==
    /\ Assign(motorStop(State))
    /\ Track("motorStop", <<>>, lastRpm, 0, 0)

CallMotorStart ==
    \E a \in Bit, b \in Bit, c \in Bit :
        LET h     == hallState(a, b, c)
            reads == <<h>>
        IN  /\ Assign(motorStart(State, h))
            /\ Track("motorStart", reads, lastRpm, 0, RunAfter(reads))

\* the library driven by an arbitrary sequential caller
MotorInit == CallMotorInit /\ UNCHANGED <<mainVars, raceVars>>

MotorSetSpeed ==
    \E rpm \in RpmInputs : CallMotorSetSpeed(rpm) /\ UNCHANGED <<mainVars, raceVars>>

MotorStop == CallMotorStop /\ UNCHANGED <<mainVars, raceVars>>

MotorStart == CallMotorStart /\ UNCHANGED <<mainVars, raceVars>>

MotorGetSpeed ==
    /\ UNCHANGED progVars
    /\ Track("motorGetSpeed", <<>>, lastRpm, motorGetSpeed(State), invalidRun)
    /\ UNCHANGED <<mainVars, raceVars>>

UpdateCommutation ==
    \E a \in Bit, b \in Bit, c \in Bit :
        LET h     == hallState(a, b, c)
            reads == ReadsOf(isRunning, h)
        IN  /\ Assign(updateCommutation(State, h))
            /\ Track("updateCommutation", reads, lastRpm, 0, RunAfter(reads))
            /\ UNCHANGED <<mainVars, raceVars>>

Next ==
    \/ MotorInit
    \/ MotorSetSpeed
    \/ MotorStop
    \/ MotorStart
    \/ MotorGetSpeed
    \/ UpdateCommutation

Spec == Init /\ [][Next]_vars

----------------------------------------------------------------------------
(* The main program (src/main.c), from after the two signal() calls        *)

\* variant: the loops leave main() directly once the signal flag is cleared
mainNext_exitOnSignal(pc, run, sp) ==
    CASE pc = "init"         -> "start"
      [] pc = "start"        -> "rampUpTest"
      [] pc = "rampUpTest"   -> IF run = 0 THEN "exit"
                                ELSE IF sp < MOTOR_MAX_RPM
                                     THEN "rampUpSet" ELSE "maxTest"
      [] pc = "rampUpSet"    -> "rampUpTest"
      [] pc = "maxTest"      -> IF run # 0 THEN "maxSet" ELSE "rampDownTest"
      [] pc = "maxSet"       -> "rampDownTest"
      [] pc = "rampDownTest" -> IF run # 0 /\ sp > 0
                                THEN "rampDownSet" ELSE "stop"
      [] pc = "rampDownSet"  -> "rampDownTest"
      [] pc = "stop"         -> "exit"
      [] OTHER               -> "exit"

\* control flow of main(): the statement after the one at pc
mainNext(pc, run, sp) ==
    CASE pc = "init"         -> "start"
      [] pc = "start"        -> "rampUpTest"
      [] pc = "rampUpTest"   -> IF run # 0 /\ sp < MOTOR_MAX_RPM
                                THEN "rampUpSet" ELSE "maxTest"
      [] pc = "rampUpSet"    -> "rampUpTest"
      [] pc = "maxTest"      -> IF run # 0 THEN "maxSet" ELSE "rampDownTest"
      [] pc = "maxSet"       -> "rampDownTest"
      [] pc = "rampDownTest" -> IF run # 0 /\ sp > 0
                                THEN "rampDownSet" ELSE "stop"
      [] pc = "rampDownSet"  -> "rampDownTest"
      [] pc = "stop"         -> "exit"
      [] OTHER               -> "exit"

Goto ==
    /\ pcMain' = mainNext(pcMain, running, speed)
    /\ UNCHANGED raceVars

\* motorInit(); the return value is ignored
MainInit ==
    /\ pcMain = "init"
    /\ CallMotorInit
    /\ Goto
    /\ UNCHANGED <<speed, running>>

\* motorStart();
MainStart ==
    /\ pcMain = "start"
    /\ CallMotorStart
    /\ Goto
    /\ UNCHANGED <<speed, running>>

\* the tests of the two while loops and of the if
MainTest ==
    /\ pcMain \in {"rampUpTest", "maxTest", "rampDownTest"}
    /\ Goto
    /\ UNCHANGED <<progVars, histVars, speed, running>>

\* motorSetSpeed(speed); speed += speedStep; usleep(500000);
MainRampUpSet ==
    /\ pcMain = "rampUpSet"
    /\ CallMotorSetSpeed(speed)
    /\ speed' = ToUint16(speed + speedStep)
    /\ Goto
    /\ UNCHANGED running

\* motorSetSpeed(MOTOR_MAX_RPM); sleep(5);
MainMaxSet ==
    /\ pcMain = "maxSet"
    /\ CallMotorSetSpeed(MOTOR_MAX_RPM)
    /\ Goto
    /\ UNCHANGED <<speed, running>>

\* speed -= speedStep; motorSetSpeed(speed); usleep(500000);
MainRampDownSet ==
    /\ pcMain = "rampDownSet"
    /\ CallMotorSetSpeed(ToUint16(speed - speedStep))
    /\ speed' = ToUint16(speed - speedStep)
    /\ Goto
    /\ UNCHANGED running

\* motorStop(); return 0;
MainStop ==
    /\ pcMain = "stop"
    /\ CallMotorStop
    /\ Goto
    /\ UNCHANGED <<speed, running>>

\* signalHandler: SIGINT or SIGTERM delivered while main() runs
SignalHandler ==
    /\ pcMain # "exit"
    /\ running = 1
    /\ running' = 0
    /\ UNCHANGED <<progVars, histVars, pcMain, speed, raceVars>>

MainStep ==
    \/ MainInit
    \/ MainStart
    \/ MainTest
    \/ MainRampUpSet
    \/ MainMaxSet
    \/ MainRampDownSet
    \/ MainStop

NextMain == MainStep \/ SignalHandler

\* main() keeps executing: sleep and usleep return
SpecMain == Init /\ [][NextMain]_vars /\ WF_vars(MainStep)

----------------------------------------------------------------------------
(* Interleaved calls: updateCommutation in the control-loop context and a  *)
(* command (motorStop, motorSetSpeed, motorStart) in another context, one  *)
(* access to the volatile statics or to a PWM channel per step.  An ISR    *)
(* that runs a whole command between two steps of the loop is one of the   *)
(* interleavings.                                                          *)

At(x, l) == pcCtx[x] = l
GoFrom(x, l) == pcCtx' = [pcCtx EXCEPT ![x] = l]
RaceFrame == UNCHANGED <<histVars, mainVars>>

\* the control loop calls updateCommutation()
TickCall ==
    /\ At("tick", "idle")
    /\ GoFrom("tick", "check")
    /\ UNCHANGED <<progVars, hallLocal, rpmLocal>>
    /\ RaceFrame

\* the other context calls motorStop()
CmdStopCall ==
    /\ At("cmd", "idle")
    /\ GoFrom("cmd", "stopFlag")
    /\ UNCHANGED <<progVars, hallLocal, rpmLocal>>
    /\ RaceFrame

\* the other context calls motorSetSpeed(rpm); the clamp is on the local
CmdSetSpeedCall ==
    \E rpm \in RaceRpm :
        /\ At("cmd", "idle")
        /\ GoFrom("cmd", "setSpeed")
        /\ rpmLocal' = clampRpm(rpm)
        /\ UNCHANGED <<progVars, hallLocal>>
        /\ RaceFrame

\* the other context calls motorStart()
CmdStartCall ==
    /\ At("cmd", "idle")
    /\ GoFrom("cmd", "startFlag")
    /\ UNCHANGED <<progVars, hallLocal, rpmLocal>>
    /\ RaceFrame

\* motorStop: isRunning = 0;
StopFlag ==
    /\ At("cmd", "stopFlag")
    /\ isRunning' = 0
    /\ GoFrom("cmd", "stopA")
    /\ UNCHANGED <<currentSpeed, pwmDutyCycle, phaseA, phaseB, phaseC,
                   hallLocal, rpmLocal>>
    /\ RaceFrame

\* motorStop: softPwmWrite(PHASE_x_PIN, 0), one channel per step
StopWrite ==
    /\ \/ /\ At("cmd", "stopA")
          /\ phaseA' = 0
          /\ GoFrom("cmd", "stopB")
          /\ UNCHANGED <<phaseB, phaseC>>
       \/ /\ At("cmd", "stopB")
          /\ phaseB' = 0
          /\ GoFrom("cmd", "stopC")
          /\ UNCHANGED <<phaseA, phaseC>>
       \/ /\ At("cmd", "stopC")
          /\ phaseC' = 0
          /\ GoFrom("cmd", "idle")
          /\ UNCHANGED <<phaseA, phaseB>>
    /\ UNCHANGED <<currentSpeed, isRunning, pwmDutyCycle, hallLocal, rpmLocal>>
    /\ RaceFrame

\* motorSetSpeed: currentSpeed = rpm;
SetSpeedStore ==
    /\ At("cmd", "setSpeed")
    /\ currentSpeed' = rpmLocal
    /\ GoFrom("cmd", "setDuty")
    /\ UNCHANGED <<isRunning, pwmDutyCycle, phaseA, phaseB, phaseC,
                   hallLocal, rpmLocal>>
    /\ RaceFrame

\* motorSetSpeed: pwmDutyCycle = (rpm * PWM_RANGE) / MOTOR_MAX_RPM;
SetSpeedDuty ==
    /\ At("cmd", "setDuty")
    /\ pwmDutyCycle' = dutyOf(rpmLocal)
    /\ GoFrom("cmd", "setCheck")
    /\ UNCHANGED <<currentSpeed, isRunning, phaseA, phaseB, phaseC,
                   hallLocal, rpmLocal>>
    /\ RaceFrame

\* motorSetSpeed: if (isRunning) updateCommutation();
SetSpeedCheck ==
    /\ At("cmd", "setCheck")
    /\ GoFrom("cmd", IF isRunning # 0 THEN "check" ELSE "idle")
    /\ UNCHANGED <<progVars, hallLocal, rpmLocal>>
    /\ RaceFrame

\* motorStart: isRunning = 1; updateCommutation();
StartFlag ==
    /\ At("cmd", "startFlag")
    /\ isRunning' = 1
    /\ GoFrom("cmd", "check")
    /\ UNCHANGED <<currentSpeed, pwmDutyCycle, phaseA, phaseB, phaseC,
                   hallLocal, rpmLocal>>
    /\ RaceFrame

\* updateCommutation: if (!isRunning) return;
UpdCheck ==
    \E x \in Ctx :
        /\ At(x, "check")
        /\ GoFrom(x, IF isRunning = 0 THEN "idle" ELSE "read")
        /\ UNCHANGED <<progVars, hallLocal, rpmLocal>>
        /\ RaceFrame

\* updateCommutation: the three digitalRead calls build hallState
UpdRead ==
    \E x \in Ctx, a \in Bit, b \in Bit, c \in Bit :
        /\ At(x, "read")
        /\ hallLocal' = [hallLocal EXCEPT ![x] = hallState(a, b, c)]
        /\ GoFrom(x, "writeA")
        /\ UNCHANGED <<progVars, rpmLocal>>
        /\ RaceFrame

\* updateCommutation: softPwmWrite(PHASE_x_PIN, pattern[i] ? pwmDutyCycle : 0),
\* one channel per step, pwmDutyCycle read at that step; the local is dead
\* after the last write
UpdWrite ==
    \E x \in Ctx :
        LET pattern == commutationTable[hallLocal[x]]
        IN  /\ \/ /\ At(x, "writeA")
                  /\ phaseA' = (IF pattern[1] # 0 THEN pwmDutyCycle ELSE 0)
                  /\ GoFrom(x, "writeB")
                  /\ UNCHANGED <<phaseB, phaseC, hallLocal>>
               \/ /\ At(x, "writeB")
                  /\ phaseB' = (IF pattern[2] # 0 THEN pwmDutyCycle ELSE 0)
                  /\ GoFrom(x, "writeC")
                  /\ UNCHANGED <<phaseA, phaseC, hallLocal>>
               \/ /\ At(x, "writeC")
                  /\ phaseC' = (IF pattern[3] # 0 THEN pwmDutyCycle ELSE 0)
                  /\ GoFrom(x, "idle")
                  /\ hallLocal' = [hallLocal EXCEPT ![x] = 0]
                  /\ UNCHANGED <<phaseA, phaseB>>
            /\ UNCHANGED <<currentSpeed, isRunning, pwmDutyCycle, rpmLocal>>
            /\ RaceFrame

NextRace ==
    \/ TickCall
    \/ CmdStopCall
    \/ CmdSetSpeedCall
    \/ CmdStartCall
    \/ StopFlag
    \/ StopWrite
    \/ SetSpeedStore
    \/ SetSpeedDuty
    \/ SetSpeedCheck
    \/ StartFlag
    \/ UpdCheck
    \/ UpdRead
    \/ UpdWrite

SpecRace == Init /\ [][NextRace]_vars

\* no call is in progress in either context
BothIdle == \A x \in Ctx : pcCtx[x] = "idle"

----------------------------------------------------------------------------
(* Shared state predicates                                                 *)

TypeOK ==
    /\ currentSpeed \in 0..UINT16_MAX
    /\ isRunning \in {0, 1}
    /\ pwmDutyCycle \in 0..UINT16_MAX
    /\ phaseA \in 0..UINT16_MAX
    /\ phaseB \in 0..UINT16_MAX
    /\ phaseC \in 0..UINT16_MAX

PhasesOff == phaseA = 0 /\ phaseB = 0 /\ phaseC = 0

\* the last call ran a commutation update that read Hall code h
ReadCode(h) == hallReads # <<>> /\ hallReads[1] = h
ReadInvalid == hallReads # <<>> /\ hallReads[1] \in InvalidHall
ReadValid == hallReads # <<>> /\ hallReads[1] \in ValidHall

\* the phase outputs are the pattern of Hall code h gated by duty d
Gated(h, d, pa, pb, pc) ==
    /\ pa = (IF commutationTable[h][1] # 0 THEN d ELSE 0)
    /\ pb = (IF commutationTable[h][2] # 0 THEN d ELSE 0)
    /\ pc = (IF commutationTable[h][3] # 0 THEN d ELSE 0)

\* number of phases the table entry of Hall code h drives
DrivenCount(h) ==
    Cardinality({i \in 1..3 : commutationTable[h][i] # 0})

\* number of phase outputs that are energized
EnergizedCount ==
    Cardinality({i \in 1..3 : <<phaseA, phaseB, phaseC>>[i] # 0})

TableDistinct ==
    \A g \in ValidHall, h \in ValidHall :
        g # h => commutationTable[g] # commutationTable[h]

----------------------------------------------------------------------------
(* C1: whenever the motor is not running (isRunning = 0), all three phase  *)
(* outputs A, B and C are 0, after any sequence of calls.                  *)

C1_OffWhenNotRunning == isRunning = 0 => PhasesOff

\* a stopped motor with a non-zero duty setting, stopped from a running one
C1_Witness ==
    /\ isRunning = 0
    /\ wasRunning = 1
    /\ pwmDutyCycle = PWM_RANGE
    /\ PhasesOff

----------------------------------------------------------------------------
(* C2: speed changes are rate-limited: between two consecutive updates     *)
(* that are not an emergency stop the duty cycle changes by at most a      *)
(* fixed maxStepPerTick; a jump of the target from 0 to MOTOR_MAX_RPM      *)
(* never produces an equal jump (of PWM_RANGE) of the duty in one step.    *)
(* Stated for the weakest rate limit, a step smaller than the full range,   *)
(* and for the steps of a motor that is and stays running.                 *)

C2_RampBound ==
    [][(isRunning = 1 /\ isRunning' = 1 /\ lastOp' # "motorStop")
          => Abs(pwmDutyCycle' - pwmDutyCycle) < PWM_RANGE]_vars

----------------------------------------------------------------------------
(* C3 (as claimed): for each valid Hall code 1..6 the commutation table    *)
(* entry drives exactly two of the three phases and leaves exactly one     *)
(* off, and the six entries are pairwise distinct.  Stated for the entry   *)
(* of every code a commutation update reads.                               *)

C3_ExactlyTwoDriven ==
    ReadValid => (DrivenCount(hallReads[1]) = 2 /\ TableDistinct)

(* C3 (amended): for each valid Hall code the table entry drives one or    *)
(* two of the three phases (one for codes 1, 2, 4; two for codes 3, 5, 6)  *)
(* and leaves at least one off, the six entries are pairwise distinct,     *)
(* and an update that reads a valid code at a non-zero duty energizes      *)
(* exactly the phases its entry drives.                                    *)

C3_OneOrTwoDriven ==
    /\ \A h \in {1, 2, 4} : DrivenCount(h) = 1
    /\ \A h \in {3, 5, 6} : DrivenCount(h) = 2
    /\ TableDistinct
    /\ (ReadValid /\ pwmDutyCycle > 0)
          => /\ EnergizedCount = DrivenCount(hallReads[1])
             /\ EnergizedCount \in {1, 2}

\* an update read code 1 and energized phase A alone
C3_Witness ==
    /\ ReadCode(1)
    /\ isRunning = 1
    /\ phaseA = PWM_RANGE
    /\ phaseB = 0
    /\ phaseC = 0

----------------------------------------------------------------------------
(* C4: a persistent sensor fault is latched: once FaultDebounceCount       *)
(* consecutive commutation updates of a running motor have read an         *)
(* invalid Hall code, all phases are off on every later update, also when  *)
(* valid codes return, and motorStart does not re-energize any phase       *)
(* (there is no clear-fault action in the code, so: never again).          *)

C4_FaultLatched == faultDue => PhasesOff

----------------------------------------------------------------------------
(* C5: whenever updateCommutation (called directly, from motorStart or     *)
(* from motorSetSpeed) runs on a running motor and reads Hall code 0 or 7, *)
(* all three phase outputs are 0 when that call returns, for every duty.   *)

C5_FailSafeSameUpdate == ReadInvalid => PhasesOff

\* an invalid code was read at full duty with a phase energized before
C5_Witness ==
    /\ ReadInvalid
    /\ lastOp = "updateCommutation"
    /\ isRunning = 1
    /\ pwmDutyCycle = PWM_RANGE

----------------------------------------------------------------------------
(* C6: a single update that reads an invalid Hall code leaves the motor    *)
(* running, and a following update that reads a valid code h applies the   *)
(* pattern of h at the current duty cycle, the motor still running.        *)

----------------------------------------------------------------------------
(* C7: from every state, for every Hall reading and every sampled rpm at   *)
(* or above MOTOR_MAX_RPM, motorSetSpeed(rpm) returns in the same state    *)
(* (speed, duty, running flag, phase outputs) as                           *)
(* motorSetSpeed(MOTOR_MAX_RPM).                                           *)

C7_ClampIdempotent ==
    \A rpm \in {r \in RpmInputs : r >= MOTOR_MAX_RPM}, h \in HallCodes :
        motorSetSpeed(State, rpm, h) = motorSetSpeed(State, MOTOR_MAX_RPM, h)

\* motorSetSpeed(UINT16_MAX) on a running motor ended at the maximum
C7_Witness ==
    /\ lastOp = "motorSetSpeed"
    /\ lastRpm = UINT16_MAX
    /\ ReadValid
    /\ currentSpeed = MOTOR_MAX_RPM
    /\ pwmDutyCycle = PWM_RANGE

----------------------------------------------------------------------------
(* C8: after motorSetSpeed(rpm) the duty cycle is                          *)
(* floor(min(rpm, MOTOR_MAX_RPM) * PWM_RANGE / MOTOR_MAX_RPM), with no     *)
(* 16-bit wrap of the product; in every reachable state the duty is in     *)
(* [0, PWM_RANGE] and equals floor(currentSpeed * PWM_RANGE /              *)
(* MOTOR_MAX_RPM); it is 0 for rpm = 0, PWM_RANGE for rpm >= MOTOR_MAX_RPM.*)

C8_DutyConversion ==
    /\ pwmDutyCycle \in 0..PWM_RANGE
    /\ pwmDutyCycle = (currentSpeed * PWM_RANGE) \div MOTOR_MAX_RPM
    /\ lastOp = "motorSetSpeed"
          => /\ pwmDutyCycle =
                  (Min(lastRpm, MOTOR_MAX_RPM) * PWM_RANGE) \div MOTOR_MAX_RPM
             /\ lastRpm = 0 => pwmDutyCycle = 0
             /\ lastRpm >= MOTOR_MAX_RPM => pwmDutyCycle = PWM_RANGE

\* 4999 rpm gives 1023 (1023.79 truncated), far above a 16-bit product
C8_Witness ==
    /\ lastOp = "motorSetSpeed"
    /\ lastRpm = MOTOR_MAX_RPM - 1
    /\ pwmDutyCycle = PWM_RANGE - 1

----------------------------------------------------------------------------
(* C9: motorGetSpeed returns min(r, MOTOR_MAX_RPM), r the argument of the  *)
(* most recent motorSetSpeed (0 if there was none); the value never        *)
(* exceeds MOTOR_MAX_RPM and the call changes no state.                    *)

C9_GetSpeedClamped ==
    [][lastOp' = "motorGetSpeed"
          => /\ result' = Min(lastRpm', MOTOR_MAX_RPM)
             /\ result' <= MOTOR_MAX_RPM
             /\ UNCHANGED progVars]_vars

\* motorGetSpeed returned the maximum after a request above it
C9_Witness ==
    /\ lastOp = "motorGetSpeed"
    /\ lastRpm = MOTOR_MAX_RPM + 1
    /\ result = MOTOR_MAX_RPM

----------------------------------------------------------------------------
(* C10: from every state, when motorStop returns the motor is not running  *)
(* and all three phase outputs are 0, in that one step (no ramp).          *)

C10_StopImmediate ==
    [][lastOp' = "motorStop" => (isRunning' = 0 /\ PhasesOff')]_vars

\* motorStop returned on a motor that was running at full duty
C10_Witness ==
    /\ lastOp = "motorStop"
    /\ wasRunning = 1
    /\ pwmDutyCycle = PWM_RANGE
    /\ isRunning = 0
    /\ PhasesOff

----------------------------------------------------------------------------
(* C11 (as claimed): motorStop on a running motor is graceful: the duty    *)
(* ramps down to 0 first and only after it has reached 0 does the          *)
(* controller stop running.  Stated as: a motorStop called while phases    *)
(* are still energized leaves the motor running (it is still ramping).     *)

C11_StopAfterRampDown ==
    [][(lastOp' = "motorStop" /\ isRunning = 1 /\ ~PhasesOff)
          => isRunning' = 1]_vars

(* C11 (amended): motorStop on a running motor with energized phases       *)
(* switches every phase output to 0 and the running flag off in that one   *)
(* call, whatever the duty; there are no ramp steps and no commutation     *)
(* in between.                                                             *)

C11_StopCutsPhases ==
    [][(lastOp' = "motorStop" /\ isRunning = 1 /\ ~PhasesOff)
          => (isRunning' = 0 /\ PhasesOff' /\ hallReads' = <<>>)]_vars

\* motorStop returned on a motor that ran at the duty of a clamped request
C11_Witness ==
    /\ lastOp = "motorStop"
    /\ wasRunning = 1
    /\ lastRpm = MOTOR_MAX_RPM + 1
    /\ pwmDutyCycle = PWM_RANGE
    /\ isRunning = 0
    /\ PhasesOff

----------------------------------------------------------------------------
(* C12 (as claimed): exactly codes 1..6 are used for a commutation table   *)
(* lookup; codes 0 and 7 are never used to index the table.                *)

----------------------------------------------------------------------------
(* C15: if the hardware setup fails, motorInit returns -1 and changes      *)
(* neither the controller state nor any phase output; if it succeeds, it   *)
(* returns 0 and leaves the motor not running with all phases 0, from      *)
(* every state.                                                            *)

C15_InitContract ==
    /\ motorInitResult(FALSE) = -1
    /\ motorInit(State, FALSE) = State
    /\ motorInitResult(TRUE) = 0
    /\ motorInit(State, TRUE).isRunning = 0
    /\ motorInit(State, TRUE).phaseA = 0
    /\ motorInit(State, TRUE).phaseB = 0
    /\ motorInit(State, TRUE).phaseC = 0
    /\ lastOp = "motorInit"
          => /\ result \in {0, -1}
             /\ result = 0 => (isRunning = 0 /\ PhasesOff)
             /\ result = -1 => isRunning = wasRunning

\* a failed motorInit on a running motor with a phase energized
C15_Witness ==
    /\ lastOp = "motorInit"
    /\ result = -1
    /\ isRunning = 1
    /\ phaseA = PWM_RANGE

----------------------------------------------------------------------------
(* C16: after every commutation update on a running motor that reads Hall  *)
(* code h (also inside motorStart and motorSetSpeed), each phase output is *)
(* the current duty cycle if the table entry of h drives that phase and 0  *)
(* otherwise; motorStart makes the motor running and applies the duty of   *)
(* the current speed setting.                                              *)

C16_PatternGatedByDuty ==
    /\ hallReads # <<>>
          => /\ isRunning = 1
             /\ Gated(hallReads[1], pwmDutyCycle, phaseA, phaseB, phaseC)
    /\ lastOp = "motorStart"
          => /\ isRunning = 1
             /\ hallReads # <<>>
             /\ pwmDutyCycle = (currentSpeed * PWM_RANGE) \div MOTOR_MAX_RPM

\* motorStart on a stopped motor read code 5 and drives A and C at 1023
C16_Witness ==
    /\ lastOp = "motorStart"
    /\ wasRunning = 0
    /\ ReadCode(5)
    /\ phaseA = PWM_RANGE - 1
    /\ phaseB = 0
    /\ phaseC = PWM_RANGE - 1

----------------------------------------------------------------------------
(* C17: updateCommutation called while the motor is not running changes    *)
(* nothing; motorSetSpeed called while not running changes only the        *)
(* commanded speed and the duty, not the phase outputs or the running flag.*)

C17_NoEffectWhenStopped ==
    [][/\ (lastOp' = "updateCommutation" /\ isRunning = 0)
            => (UNCHANGED progVars /\ hallReads' = <<>>)
       /\ (lastOp' = "motorSetSpeed" /\ isRunning = 0)
            => /\ UNCHANGED <<isRunning, phaseA, phaseB, phaseC>>
               /\ currentSpeed' = Min(lastRpm', MOTOR_MAX_RPM)]_vars

\* updateCommutation returned on a stopped motor with a full duty setting
C17_Witness ==
    /\ lastOp = "updateCommutation"
    /\ wasRunning = 0
    /\ isRunning = 0
    /\ pwmDutyCycle = PWM_RANGE
    /\ PhasesOff

----------------------------------------------------------------------------
(* C18: when a commutation update on a running motor reads Hall code 0 or  *)
(* 7, the motor is stopped (no longer running) when the call returns.      *)

C18_StopOnInvalid == ReadInvalid => isRunning = 0

----------------------------------------------------------------------------
(* C19: motorStop changes only the running flag and the phase outputs:     *)
(* the commanded speed and the duty are preserved, so motorGetSpeed right  *)
(* after it still returns the last commanded speed and a motorStart right  *)
(* after it that reads a valid Hall code drives the phases of that code    *)
(* at the full previous duty in one step.                                  *)

C19_StopKeepsSetting ==
    [][/\ lastOp' = "motorStop"
            => (currentSpeed' = currentSpeed /\ pwmDutyCycle' = pwmDutyCycle)
       /\ (lastOp = "motorStop" /\ lastOp' = "motorGetSpeed")
            => result' = Min(lastRpm, MOTOR_MAX_RPM)
       /\ (lastOp = "motorStop" /\ lastOp' = "motorStart" /\ ReadValid')
            => /\ pwmDutyCycle' = (Min(lastRpm, MOTOR_MAX_RPM) * PWM_RANGE)
                                     \div MOTOR_MAX_RPM
               /\ Gated(hallReads'[1], pwmDutyCycle, phaseA', phaseB', phaseC')
      ]_vars

\* motorStop returned on a running motor and left 4999 rpm / 1023 in place
C19_Witness ==
    /\ lastOp = "motorStop"
    /\ wasRunning = 1
    /\ lastRpm = MOTOR_MAX_RPM - 1
    /\ currentSpeed = MOTOR_MAX_RPM - 1
    /\ pwmDutyCycle = PWM_RANGE - 1

----------------------------------------------------------------------------
(* C20: with every Hall sensor read returning 0 or 1, the code built as    *)
(* (A << 2) | (B << 1) | C is always in 0..7, each of the 8 values occurs, *)
(* and every index the commutation table is read at is one of its 8 rows.  *)

C20_HallCodeRange ==
    /\ \A a \in Bit, b \in Bit, c \in Bit : hallState(a, b, c) \in HallCodes
    /\ {hallState(a, b, c) : a \in Bit, b \in Bit, c \in Bit} = HallCodes
    /\ \A i \in DOMAIN hallReads : hallReads[i] \in HallCodes
    /\ \A i \in DOMAIN tableReads : tableReads[i] \in DOMAIN commutationTable
    /\ \A h \in DOMAIN commutationTable : DOMAIN commutationTable[h] = 1..3

\* the largest code, all three sensors high, was read and looked up
C20_Witness ==
    /\ lastOp = "updateCommutation"
    /\ hallReads = <<7>>
    /\ tableReads = <<7>>
    /\ isRunning = 1

----------------------------------------------------------------------------
(* C14: every execution of the main program, with SIGINT/SIGTERM delivered *)
(* at any point of the test sequence or not at all, terminates, and        *)
(* motorStop is the last motor operation before exit: at exit the motor is *)
(* not running and all phases are off.                                     *)

C14_ShutdownDeenergizes ==
    /\ <>(pcMain = "exit")
    /\ [](pcMain = "exit"
            => (lastOp = "motorStop" /\ isRunning = 0 /\ PhasesOff))

\* main() has exited after a signal cut the ramp-up short at 2000 rpm
C14_Witness ==
    /\ pcMain = "exit"
    /\ running = 0
    /\ speed = 21 * speedStep
    /\ currentSpeed = 20 * speedStep
    /\ isRunning = 0
    /\ PhasesOff

----------------------------------------------------------------------------
(* C13: when motorStop (or motorSetSpeed / motorStart) runs in another     *)
(* context and interleaves at any point with an in-progress                *)
(* updateCommutation, then once both calls have completed the state still  *)
(* satisfies: not running implies all phase outputs are 0.                 *)

C13_RaceSafe == BothIdle => (isRunning = 0 => PhasesOff)

====
